---- MODULE Spec2Model ----
(***************************************************************************)
(* Daisyworld (src/DaisyWolrd.py): a grid of white / black / empty cells,  *)
(* a planetary temperature computed from the grid's mean albedo, and a     *)
(* stochastic growth / death update driven by that temperature.            *)
(*                                                                         *)
(* The script's numbers are Python floats.  They are modelled as binary    *)
(* floating-point numbers of MantBits significant bits over a fixed-point  *)
(* grid of 2^-FracBits: every arithmetic operation of the source rounds    *)
(* its exact result to the nearest representable value (ties to even), as  *)
(* IEEE-754 does with 53 bits.  A float is held as the integer number of   *)
(* units of 2^-FracBits it is worth.                                       *)
(*                                                                         *)
(* Random draws are nondeterministic choices: random.random() and numpy's  *)
(* uniform sample range over Draws, a set of floats of [0, 1) holding the  *)
(* least (0) and the greatest value below 1.                               *)
(***************************************************************************)
EXTENDS Integers, Sequences, FiniteSets

\* ------------------------------------------------------------------ bounds

\* Significant bits of a float (53 in the source's doubles).
MantBits == 5

\* Fractional bits of the fixed-point grid the floats live on.
FracBits == 8

\* Greatest number of cell updates of a run, grid_size^2 * steps: the sliders'
\* 10..100 and 10..200 scaled down to grids of 1 and 4 cells, updated up to
\* 8 times and twice.
MaxUpdates == 8

\* Grid sizes (the slider's 10..100, scaled down).
GridSizes == {1, 2}

\* ------------------------------------------------------- float arithmetic

RECURSIVE Pow2(_)
Pow2(n) == IF n = 0 THEN 1 ELSE 2 * Pow2(n - 1)

\* The powers of two the model's integers can hold.
Pow2Table == [n \in 0 .. 30 |-> Pow2(n)]

Abs(x) == IF x < 0 THEN -x ELSE x

\* The float 1.0.
One == Pow2(FracBits)

\* The exponent of the unit in the last place of a float of integer part q:
\* 0 while q fits MantBits bits, else the number of bits q has beyond them.
UlpExponent(q) ==
    IF q < Pow2Table[MantBits] THEN 0
    ELSE CHOOSE e \in 1 .. (30 - MantBits) :
            /\ Pow2Table[MantBits + e - 1] <= q
            /\ q < Pow2Table[MantBits + e]

\* The multiple of unit nearest to a >= 0 (ties to even), in units.
Nearest(a, unit) ==
    LET m == a \div unit
    IN  IF 2 * (a - m * unit) > unit \/ (2 * (a - m * unit) = unit /\ m % 2 = 1)
        THEN m + 1 ELSE m

\* The float nearest to the rational num / den (den > 0), ties to even.
Round(num, den) ==
    LET e == UlpExponent(Abs(num) \div den)
        r == Nearest(Abs(num), den * Pow2Table[e]) * Pow2Table[e]
    IN  IF num < 0 THEN -r ELSE r

\* A decimal literal n/d as a float, e.g. 0.7 == Decimal(7, 10).
Decimal(n, d) == Round(n * One, d)

\* A Python int used in float arithmetic (exact for the ints of the model).
IntToFloat(n) == n * One

FAdd(a, b) == Round(a + b, 1)
FSub(a, b) == Round(a - b, 1)
FMul(a, b) == Round(a * b, One)
FDiv(a, b) == Round(a * One, b)

\* The greatest float below 1.0.
BelowOne == One - Pow2(FracBits - MantBits)

\* Values of random.random() / numpy's uniform sample, all in [0, 1).
Draws == {0, One \div 4, One \div 2, BelowOne}

\* ------------------------------------------------------------ cell states

CellState == {"white", "black", "empty"}

Range(n) == 0 .. (n - 1)

\* All size x size arrays over a set S (numpy's 2-D array, 0-based).
Arrays(size, S) == [Range(size) -> [Range(size) -> S]]

\* grid.shape[0], grid.shape[1]
Shape0(g) == Cardinality(DOMAIN g)
Shape1(g) == IF Shape0(g) = 0 THEN 0 ELSE Cardinality(DOMAIN g[0])

\* ---------------------------------------------------------------- sliders

\* Slider values the model draws from (each a value the slider can take).
WhiteFracs == {0, Decimal(1, 4), One}
BlackFracs == {0, Decimal(1, 4), One}
\* <<albedo_white, albedo_black, albedo_empty>>: the defaults, and values that
\* are no binary fractions.
Albedos == {<<One, 0, Decimal(1, 2)>>,
            <<Decimal(7, 10), Decimal(1, 10), Decimal(3, 10)>>}
SolarLuminosities == {One, 2 * One}
OptimalTemps == {22}
ReproductionRates == {0, Decimal(1, 2)}
DeathRates == {0, Decimal(1, 2), One}

VARIABLES
    sliders,          \* the module-level slider values (lines 31-46)
    last_params,      \* st.session_state.last_params: <<>> when absent, else <<tuple>>
    simulation_data,  \* st.session_state.simulation_data: <<>> when absent
    initial_grid,     \* module-level initial_grid (line 97): <<>> before it is set
    grid,             \* simulate_daisyworld's local grid
    grids,            \* grids: simulate_daisyworld's local, then line 105's
    temperatures,     \* temperatures: likewise
    populations,      \* populations: likewise
    step,             \* the selected timestep (line 107): -1 before it is read
    pc                \* position of the script run

vars == <<sliders, last_params, simulation_data, initial_grid, grid, grids,
          temperatures, populations, step, pc>>

\* max_black = 1.0 - white_frac (line 34)
max_black(white_frac) == FSub(One, white_frac)

\* empty_frac = 1.0 - white_frac - black_frac (line 36)
empty_frac == FSub(FSub(One, sliders.white_frac), sliders.black_frac)

\* daisy_types (line 49)
daisy_types ==
    [white |-> sliders.albedo_white, black |-> sliders.albedo_black,
     empty |-> sliders.albedo_empty]

\* The 11-field tuple compared with last_params (lines 93-96, 100-103).
params_tuple ==
    <<sliders.grid_size, sliders.steps, sliders.white_frac, sliders.black_frac,
      sliders.albedo_white, sliders.albedo_black, sliders.albedo_empty,
      sliders.solar_luminosity, sliders.optimal_temp,
      sliders.reproduction_rate, sliders.death_rate>>

\* Faulty variant of must_recompute: the last field of the tuple, death_rate,
\* is left out of the comparison.
must_recompute_ten_fields ==
    IF last_params = <<>> THEN TRUE
    ELSE SubSeq(last_params[1], 1, 10) # SubSeq(params_tuple, 1, 10)

\* "last_params" not in st.session_state or last_params != (...) (line 93)
must_recompute ==
    IF last_params = <<>> THEN TRUE ELSE last_params[1] # params_tuple

\* ------------------------------------------------------- initialize_grid

\* Faulty variant of random_choice: the cumulative sums are searched from the left.
random_choice_left(u) ==
    LET c1  == sliders.white_frac
        c2  == FAdd(c1, sliders.black_frac)
        c3  == FAdd(c2, empty_frac)
        cdf == <<FDiv(c1, c3), FDiv(c2, c3), FDiv(c3, c3)>>
        idx == Cardinality({k \in 1 .. 3 : cdf[k] < u})
    IN  <<"white", "black", "empty">>[idx + 1]

\* np.random.choice(a, p=p) for one uniform sample u: the cumulative sums of
\* p, normalised by the last, searched for u from the right.
random_choice(u) ==
    LET c1  == sliders.white_frac
        c2  == FAdd(c1, sliders.black_frac)
        c3  == FAdd(c2, empty_frac)
        cdf == <<FDiv(c1, c3), FDiv(c2, c3), FDiv(c3, c3)>>
        idx == Cardinality({k \in 1 .. 3 : cdf[k] <= u})
    IN  <<"white", "black", "empty">>[idx + 1]

\* p = [white_frac, black_frac, empty_frac] (line 55)
p_fracs == <<sliders.white_frac, sliders.black_frac, empty_frac>>

\* np.random.choice's sum of p: a compensated sum, the exact sum rounded once.
p_sum == Round(p_fracs[1] + p_fracs[2] + p_fracs[3], 1)

\* np.random.choice's tolerance on the sum of p, sqrt(eps): eps is
\* 2^-(MantBits - 1), 2^-52 in the source's doubles.
choice_atol == Pow2(FracBits - (MantBits - 1) \div 2)

\* Faulty variant of p_valid: the sum is compared with 1 exactly.
p_valid_exact ==
    /\ \A k \in 1 .. 3 : p_fracs[k] >= 0
    /\ p_sum = One

\* np.random.choice accepts p: no entry is negative ("probabilities are not
\* non-negative") and the sum is within the tolerance of 1 ("probabilities
\* do not sum to 1"); otherwise it raises ValueError.
p_valid ==
    /\ \A k \in 1 .. 3 : p_fracs[k] >= 0
    /\ Abs(FSub(p_sum, One)) <= choice_atol

\* The grids initialize_grid(size) can return, over all uniform samples;
\* none when np.random.choice raises.
initialize_grid(size) ==
    IF p_valid
    THEN LET cells == {random_choice(u) : u \in Draws}
         IN  Arrays(size, cells)
    ELSE {}

\* ------------------------------------------------- calculate_temperature

\* The cells of a grid in traversal (row-major) order.
Flatten(g) ==
    [k \in 1 .. (Shape0(g) * Shape1(g)) |->
        g[(k - 1) \div Shape1(g)][(k - 1) % Shape1(g)]]

\* The float sum of a sequence, accumulated in order.
RECURSIVE FSum(_)
FSum(s) == IF s = <<>> THEN 0 ELSE FAdd(FSum(SubSeq(s, 1, Len(s) - 1)), s[Len(s)])

\* np.mean of the albedo of a sequence of cells.
mean_albedo(cells) ==
    FDiv(FSum([k \in 1 .. Len(cells) |-> daisy_types[cells[k]]]),
         IntToFloat(Len(cells)))

\* Faulty variant of temperature_of: optimal_temp is not doubled.
temperature_of_undoubled(cells) ==
    FMul(FMul(sliders.solar_luminosity, FSub(One, mean_albedo(cells))),
         IntToFloat(sliders.optimal_temp))

\* Faulty variant of temperature_of: the albedo is added instead of subtracted.
temperature_of_added(cells) ==
    FMul(FMul(sliders.solar_luminosity, FAdd(One, mean_albedo(cells))),
         IntToFloat(2 * sliders.optimal_temp))

\* The temperature of a sequence of cells (lines 59-61).
temperature_of(cells) ==
    FMul(FMul(sliders.solar_luminosity, FSub(One, mean_albedo(cells))),
         IntToFloat(2 * sliders.optimal_temp))

calculate_temperature(g) == temperature_of(Flatten(g))

\* --------------------------------------------------------- update_daisies

\* abs(temperature - optimal_temp)
deviation(temperature) ==
    Abs(FSub(temperature, IntToFloat(sliders.optimal_temp)))

\* Faulty variant of growth_prob: the factor (1 - ratio) is taken in absolute value.
growth_prob_abs(temperature) ==
    FMul(sliders.reproduction_rate,
         Abs(FSub(One, FDiv(deviation(temperature), IntToFloat(sliders.optimal_temp)))))

\* reproduction_rate * (1 - abs(temperature - optimal_temp) / optimal_temp)
growth_prob(temperature) ==
    FMul(sliders.reproduction_rate,
         FSub(One, FDiv(deviation(temperature), IntToFloat(sliders.optimal_temp))))

\* Faulty variant of death_prob: the deviation replaced by the temperature itself.
death_prob_of_temperature(temperature) ==
    FDiv(FMul(sliders.death_rate, Abs(temperature)),
         IntToFloat(sliders.optimal_temp))

\* Faulty variant of death_prob: the growth factor (1 - ratio) is used.
death_prob_of_growth_factor(temperature) ==
    FMul(sliders.death_rate,
         FSub(One, FDiv(deviation(temperature), IntToFloat(sliders.optimal_temp))))

\* death_rate * abs(temperature - optimal_temp) / optimal_temp
death_prob(temperature) ==
    FDiv(FMul(sliders.death_rate, deviation(temperature)),
         IntToFloat(sliders.optimal_temp))

\* Faulty variant of decide: a dying daisy is written as a fourth state.
decide_dead(cell, growth, death, u, pick) ==
    IF cell = "empty"
    THEN IF u < growth THEN pick ELSE cell
    ELSE IF cell \in {"white", "black"}
         THEN IF u < death THEN "dead" ELSE cell
         ELSE cell

\* Faulty variant of decide: the draws are compared with <= instead of <.
decide_inclusive(cell, growth, death, u, pick) ==
    IF cell = "empty"
    THEN IF u <= growth THEN pick ELSE cell
    ELSE IF cell \in {"white", "black"}
         THEN IF u <= death THEN "empty" ELSE cell
         ELSE cell

\* Faulty variant of decide: a dying daisy takes the picked colour.
decide_recolour(cell, growth, death, u, pick) ==
    IF cell = "empty"
    THEN IF u < growth THEN pick ELSE cell
    ELSE IF cell \in {"white", "black"}
         THEN IF u < death THEN pick ELSE cell
         ELSE cell

\* One cell's decision (lines 68-73) for the growth and death probabilities
\* of the step, the draw u of random.random() and the pick of
\* random.choice(["white", "black"]).
decide(cell, growth, death, u, pick) ==
    IF cell = "empty"
    THEN IF u < growth THEN pick ELSE cell
    ELSE IF cell \in {"white", "black"}
         THEN IF u < death THEN "empty" ELSE cell
         ELSE cell

\* For each cell state, the next states a cell can take at a temperature,
\* over all draws.
outcomes(temperature) ==
    UNION {{[c \in CellState |->
               {decide(c, growth, death, u, pick) :
                   u \in Draws, pick \in {"white", "black"}}]} :
           growth \in {growth_prob(temperature)},
           death \in {death_prob(temperature)}}

\* The grids update_daisies(g, temperature) can return, over all draws:
\* new_grid is a copy of g in which every cell is decided from g's cell by
\* draws of its own (lines 65-74).
update_daisies(g, temperature) ==
    UNION {{n \in [DOMAIN g -> [DOMAIN g[0] ->
                     out["white"] \cup out["black"] \cup out["empty"]]] :
               \A i \in DOMAIN g : \A j \in DOMAIN g[0] :
                  n[i][j] \in out[g[i][j]]} :
           out \in outcomes(temperature)}

\* The loops of lines 66-73 run over the cells in the order f (row-major in
\* the source, f[k] the number of the k-th cell visited): the grids new_grid
\* can be after the first k cells, each cell decided from grid[i, j] and
\* written into new_grid, which starts as grid.copy().
RECURSIVE visit(_, _, _, _)
visit(g, out, f, k) ==
    IF k = 0 THEN {g}
    ELSE LET i == (f[k] - 1) \div Shape1(g)
             j == (f[k] - 1) % Shape1(g)
         IN  {[n EXCEPT ![i][j] = x] :
                 n \in visit(g, out, f, k - 1), x \in out[g[i][j]]}

\* The grids update_daisies(g, temperature) can return when its loops visit
\* the cells in the order f.
update_in_order(g, temperature, f) ==
    UNION {visit(g, out, f, Shape0(g) * Shape1(g)) : out \in outcomes(temperature)}

\* Faulty variant of count: only the first row is counted.
count_first_row(g, state) ==
    Cardinality({j \in DOMAIN g[0] : g[0][j] = state})

\* np.sum(grid == state)
count(g, state) ==
    Cardinality({ij \in (DOMAIN g) \X (DOMAIN g[0]) : g[ij[1]][ij[2]] = state})

\* Faulty variant of loop_continues: one iteration too many.
loop_continues_inclusive == Len(grids) <= sliders.steps

\* for _ in range(steps): the loop runs while fewer than steps iterations
\* are done (every iteration appends one grid).
loop_continues == Len(grids) < sliders.steps

\* ------------------------------------------------------------------- Init

SliderValues ==
    {s \in [grid_size : GridSizes, steps : 1 .. MaxUpdates,
            white_frac : WhiteFracs, black_frac : BlackFracs,
            albedo_white : {a[1] : a \in Albedos},
            albedo_black : {a[2] : a \in Albedos},
            albedo_empty : {a[3] : a \in Albedos},
            solar_luminosity : SolarLuminosities, optimal_temp : OptimalTemps,
            reproduction_rate : ReproductionRates, death_rate : DeathRates] :
        /\ s.grid_size * s.grid_size * s.steps <= MaxUpdates
        /\ s.black_frac <= max_black(s.white_frac)
        /\ <<s.albedo_white, s.albedo_black, s.albedo_empty>> \in Albedos}

no_populations == [white |-> <<>>, black |-> <<>>, empty |-> <<>>]

\* A fresh session at the top of a script run, the sliders read.
Init ==
    /\ sliders \in SliderValues
    /\ last_params = <<>>
    /\ simulation_data = <<>>
    /\ initial_grid = <<>>
    /\ grid = <<>>
    /\ grids = <<>>
    /\ temperatures = <<>>
    /\ populations = no_populations
    /\ step = -1
    /\ pc = "script"

\* ---------------------------------------------------------------- actions

\* Lines 93-98, up to the loop of simulate_daisyworld: the parameters differ
\* from last_params (or there are none), the initial grid is drawn and
\* simulate_daisyworld is entered.  When np.random.choice raises, the
\* exception ends the script run at line 97 with the session untouched.
Recompute ==
    /\ pc = "script"
    /\ must_recompute
    /\ IF initialize_grid(sliders.grid_size) = {}
       THEN /\ pc' = "error"
            /\ UNCHANGED <<initial_grid, grid, grids, temperatures, populations>>
       ELSE /\ \E g \in initialize_grid(sliders.grid_size) :
                /\ initial_grid' = g
                /\ grid' = g
            /\ grids' = <<>>
            /\ temperatures' = <<>>
            /\ populations' = no_populations
            /\ pc' = "loop"
    /\ UNCHANGED <<sliders, last_params, simulation_data, step>>

\* Faulty variant of LoopBody: the grid is recorded after its update.
LoopBody_records_updated ==
    /\ pc = "loop"
    /\ loop_continues
    /\ \E temp \in {calculate_temperature(grid)} :
           /\ temperatures' = Append(temperatures, temp)
           /\ populations' =
                [white |-> Append(populations.white, count(grid, "white")),
                 black |-> Append(populations.black, count(grid, "black")),
                 empty |-> Append(populations.empty, count(grid, "empty"))]
           /\ grid' \in update_daisies(grid, temp)
           /\ grids' = Append(grids, grid')
    /\ UNCHANGED <<sliders, last_params, simulation_data, initial_grid, step, pc>>

\* Faulty variant of LoopBody: no copies are made, the history holds the one
\* array that the update changes in place.
LoopBody_aliased ==
    /\ pc = "loop"
    /\ loop_continues
    /\ \E temp \in {calculate_temperature(grid)} :
           /\ temperatures' = Append(temperatures, temp)
           /\ populations' =
                [white |-> Append(populations.white, count(grid, "white")),
                 black |-> Append(populations.black, count(grid, "black")),
                 empty |-> Append(populations.empty, count(grid, "empty"))]
           /\ grid' \in update_daisies(grid, temp)
           /\ grids' = [t \in 1 .. (Len(grids) + 1) |-> grid']
    /\ UNCHANGED <<sliders, last_params, simulation_data, initial_grid, step, pc>>

\* One iteration of the loop of simulate_daisyworld (lines 82-89).
LoopBody ==
    /\ pc = "loop"
    /\ loop_continues
    /\ \E temp \in {calculate_temperature(grid)} :
           /\ temperatures' = Append(temperatures, temp)
           /\ populations' =
                [white |-> Append(populations.white, count(grid, "white")),
                 black |-> Append(populations.black, count(grid, "black")),
                 empty |-> Append(populations.empty, count(grid, "empty"))]
           /\ grids' = Append(grids, grid)
           /\ grid' \in update_daisies(grid, temp)
    /\ UNCHANGED <<sliders, last_params, simulation_data, initial_grid, step, pc>>

\* The loop ends, simulate_daisyworld returns and the result and the
\* parameters are stored in the session (lines 91, 98-103).
Return ==
    /\ pc = "loop"
    /\ ~loop_continues
    /\ simulation_data' =
        <<[grids |-> grids, temperatures |-> temperatures,
           populations |-> populations]>>
    /\ last_params' = <<params_tuple>>
    /\ grid' = <<>>
    /\ grids' = <<>>
    /\ temperatures' = <<>>
    /\ populations' = no_populations
    /\ pc' = "render"
    /\ UNCHANGED <<sliders, initial_grid, step>>

\* Lines 105-107: the stored history is unpacked into the module-level
\* grids, temperatures and populations, and a timestep is selected.
Render ==
    /\ pc = "render"
    /\ grids' = simulation_data[1].grids
    /\ temperatures' = simulation_data[1].temperatures
    /\ populations' = simulation_data[1].populations
    /\ \E s \in 0 .. (sliders.steps - 1) : step' = s
    /\ pc' = "done"
    /\ UNCHANGED <<sliders, last_params, simulation_data, initial_grid, grid>>

Next == Recompute \/ LoopBody \/ Return \/ Render

Spec == Init /\ [][Next]_vars

\* ----------------------------------------------------- a session of reruns

\* Slider values of a session of several script runs: a single cell, one or
\* two timesteps, fractions in steps of 0.05, two death rates.
SessionSteps == {1, 2}
SessionWhiteFracs == {0, Decimal(1, 20), One}
SessionBlackFracs == {0, Decimal(1, 20)}
SessionDeathRates == {0, Decimal(1, 2)}

SessionSliders ==
    {s \in [grid_size : {1}, steps : SessionSteps,
            white_frac : SessionWhiteFracs, black_frac : SessionBlackFracs,
            albedo_white : {One}, albedo_black : {0},
            albedo_empty : {Decimal(1, 2)},
            solar_luminosity : {One}, optimal_temp : OptimalTemps,
            reproduction_rate : {Decimal(1, 2)}, death_rate : SessionDeathRates] :
        s.black_frac <= max_black(s.white_frac)}

\* The first script run of a session.
SessionInit ==
    /\ sliders \in SessionSliders
    /\ last_params = <<>>
    /\ simulation_data = <<>>
    /\ initial_grid = <<>>
    /\ grid = <<>>
    /\ grids = <<>>
    /\ temperatures = <<>>
    /\ populations = no_populations
    /\ step = -1
    /\ pc = "script"

\* The condition of line 93 is false: lines 97-103 are skipped and the
\* stored history is used as it is.
Reuse ==
    /\ pc = "script"
    /\ ~must_recompute
    /\ pc' = "render"
    /\ UNCHANGED <<sliders, last_params, simulation_data, initial_grid, grid,
                   grids, temperatures, populations, step>>

\* The user moves a slider (or none): the script runs again from the top
\* with the session state kept and the module-level names unbound.
Rerun ==
    /\ pc \in {"done", "error"}
    /\ sliders' \in SessionSliders
    /\ initial_grid' = <<>>
    /\ grid' = <<>>
    /\ grids' = <<>>
    /\ temperatures' = <<>>
    /\ populations' = no_populations
    /\ pc' = "script"
    /\ UNCHANGED <<last_params, simulation_data, step>>

NextSession == Recompute \/ LoopBody \/ Return \/ Reuse \/ Render \/ Rerun

SpecSession == SessionInit /\ [][NextSession]_vars

\* ------------------------------------------------------------- properties

\* The history under construction inside simulate_daisyworld, or unpacked at
\* line 105.
history == [grids |-> grids, temperatures |-> temperatures, populations |-> populations]

\* The histories a state holds: the one in the locals and the stored one.
histories == {history} \cup {simulation_data[k] : k \in DOMAIN simulation_data}

\* The cells of a size x size grid.
Cells(size) == Range(size) \X Range(size)

\* C1: simulate_daisyworld runs exactly `steps` iterations and returns grids,
\* temperatures and the three population sequences with length `steps` each:
\* inside the loop the five sequences have one common length, at most steps;
\* what is stored has length steps; and a run never stops before it is done
\* (a grid can always be drawn and updated, so the next action is enabled).
ThmC1_HistoryLength ==
    /\ \A h \in histories :
        /\ Len(h.temperatures) = Len(h.grids)
        /\ Len(h.populations.white) = Len(h.grids)
        /\ Len(h.populations.black) = Len(h.grids)
        /\ Len(h.populations.empty) = Len(h.grids)
        /\ Len(h.grids) <= sliders.steps
    /\ \A k \in DOMAIN simulation_data :
        Len(simulation_data[k].grids) = sliders.steps
    /\ pc \in {"render", "done"} => simulation_data # <<>>
    /\ pc = "script" => must_recompute /\ initialize_grid(sliders.grid_size) # {}
    /\ (pc = "loop" /\ loop_continues) =>
          update_daisies(grid, calculate_temperature(grid)) # {}

WitC1_FullRun ==
    /\ pc = "done"
    /\ sliders.steps = MaxUpdates
    /\ Len(simulation_data[1].grids) = MaxUpdates
    /\ Len(simulation_data[1].populations.empty) = MaxUpdates
    /\ simulation_data[1].grids[MaxUpdates] # simulation_data[1].grids[1]

\* C2: at every recorded timestep the three population counts add up to
\* gridSize^2 and each is the number of cells of that timestep's grid in that
\* state.
ThmC2_PopulationCounts ==
    \A h \in histories : \A t \in 1 .. Len(h.grids) :
        /\ h.populations.white[t] + h.populations.black[t] + h.populations.empty[t]
             = sliders.grid_size * sliders.grid_size
        /\ \A state \in CellState :
             h.populations[state][t] =
               Cardinality({c \in Cells(sliders.grid_size) :
                              h.grids[t][c[1]][c[2]] = state})

WitC2_MixedCounts ==
    /\ simulation_data # <<>>
    /\ sliders.grid_size = 2
    /\ Len(simulation_data[1].grids) = 2
    /\ simulation_data[1].populations.white[2] = 1
    /\ simulation_data[1].populations.black[2] = 1
    /\ simulation_data[1].populations.empty[2] = 2
    /\ simulation_data[1].populations.empty[1] # 2

\* n is a grid update_daisies(g, temperature) can return: it has g's shape
\* and each of its cells is an outcome of the update of g's cell.
IsUpdate(g, temperature, n) ==
    /\ DOMAIN n = DOMAIN g
    /\ \A i \in DOMAIN g : DOMAIN n[i] = DOMAIN g[i]
    /\ \E out \in outcomes(temperature) :
          \A i \in DOMAIN g : \A j \in DOMAIN g[i] : n[i][j] \in out[g[i][j]]

\* C3: when simulate_daisyworld returns, its history is aligned on the
\* state before each update: grids[0] is the initial grid, temperatures[t]
\* is the temperature of grids[t] and grids[t+1] is a result of
\* update_daisies(grids[t], temperatures[t]); inside the loop the local grid is the result of the
\* update of the last recorded grid, and the grid of the last update is in
\* no history: a returned history has steps entries.
ThmC3_IndexAligned ==
    /\ pc = "render" => \A k \in DOMAIN simulation_data :
        /\ Len(simulation_data[k].grids) = sliders.steps
        /\ simulation_data[k].grids[1] = initial_grid
        /\ \A t \in 1 .. sliders.steps :
             simulation_data[k].temperatures[t] =
                calculate_temperature(simulation_data[k].grids[t])
        /\ \A t \in 1 .. (sliders.steps - 1) :
             IsUpdate(simulation_data[k].grids[t], simulation_data[k].temperatures[t],
                      simulation_data[k].grids[t + 1])
    /\ (pc = "loop" /\ Len(grids) >= 1) =>
          IsUpdate(grids[Len(grids)], temperatures[Len(grids)], grid)
    /\ (pc = "loop" /\ Len(grids) = 0) => grid = initial_grid

WitC3_TwoSteps ==
    /\ simulation_data # <<>>
    /\ Len(simulation_data[1].grids) = 2
    /\ simulation_data[1].grids[2] # simulation_data[1].grids[1]
    /\ simulation_data[1].temperatures[2] # simulation_data[1].temperatures[1]

\* A grid of the given size whose cells are all white, black or empty.
WellFormed(g, size) ==
    /\ DOMAIN g = Range(size)
    /\ \A i \in Range(size) :
        /\ DOMAIN g[i] = Range(size)
        /\ \A j \in Range(size) : g[i][j] \in CellState

\* Temperatures a cell's update is tried with, besides the reachable ones.
ProbeTemps == {0, IntToFloat(sliders.optimal_temp), IntToFloat(4 * sliders.optimal_temp)}

\* C4: update_daisies returns a grid of the same dimensions whose cells are
\* white, black or empty: the current grid (every result of update_daisies
\* becomes it), the initial grid and every recorded grid are well-formed,
\* and at any temperature a cell's update yields one of the three states.
ThmC4_ThreeStates ==
    /\ \A h \in histories : \A t \in 1 .. Len(h.grids) :
          WellFormed(h.grids[t], sliders.grid_size)
    /\ initial_grid # <<>> => WellFormed(initial_grid, sliders.grid_size)
    /\ pc = "loop" => WellFormed(grid, sliders.grid_size)
    /\ (pc = "loop" /\ Len(grids) = 0) =>
          \A temp \in ProbeTemps : \A out \in outcomes(temp) : \A c \in CellState :
              out[c] \subseteq CellState

WitC4_Updated ==
    /\ pc = "loop"
    /\ sliders.grid_size = 2
    /\ Len(grids) = 2
    /\ grid # grids[2]
    /\ grids[2] # grids[1]

\* C5: with reproduction_rate = 0 and death_rate = 0 no cell ever changes:
\* every recorded grid and the current grid equal the initial grid, and the
\* population counts and the temperature are the same at every timestep.
ThmC5_Frozen ==
    (sliders.reproduction_rate = 0 /\ sliders.death_rate = 0) =>
        /\ pc = "loop" => grid = initial_grid
        /\ \A h \in histories : \A t \in 1 .. Len(h.grids) :
            /\ h.grids[t] = initial_grid
            /\ h.temperatures[t] = h.temperatures[1]
            /\ h.populations.white[t] = h.populations.white[1]
            /\ h.populations.black[t] = h.populations.black[1]
            /\ h.populations.empty[t] = h.populations.empty[1]

WitC5_FrozenOffOptimum ==
    /\ sliders.reproduction_rate = 0
    /\ sliders.death_rate = 0
    /\ sliders.grid_size = 2
    /\ simulation_data # <<>>
    /\ Len(simulation_data[1].grids) = 2
    /\ simulation_data[1].populations.white[2] >= 1
    /\ simulation_data[1].populations.empty[2] >= 1
    /\ simulation_data[1].temperatures[2] # IntToFloat(sliders.optimal_temp)

\* The grid update_daisies returned for timestep t of the history in the
\* locals (the next recorded grid, or the current grid after the last one).
GridAfter(t) == IF t < Len(grids) THEN grids[t + 1] ELSE grid

\* The timestep whose update has just been applied (every update is the
\* last one in the state that follows it).
UpdatedSteps == IF pc = "loop" /\ Len(grids) >= 1 THEN {Len(grids)} ELSE {}

\* C6: when the temperature equals optimal_temp the death probability is 0
\* and no white or black cell becomes empty in that step; the growth
\* probability is reproduction_rate, and an empty cell can become a daisy in
\* that step iff reproduction_rate > 0.
ThmC6_AtOptimum ==
    \A t \in UpdatedSteps :
        temperatures[t] = IntToFloat(sliders.optimal_temp) =>
            /\ death_prob(temperatures[t]) = 0
            /\ growth_prob(temperatures[t]) = sliders.reproduction_rate
            /\ \A c \in Cells(sliders.grid_size) :
                 grids[t][c[1]][c[2]] # "empty" =>
                    GridAfter(t)[c[1]][c[2]] = grids[t][c[1]][c[2]]
            /\ \A out \in outcomes(temperatures[t]) :
                 (out["empty"] # {"empty"}) <=> (sliders.reproduction_rate > 0)
            /\ (\E c \in Cells(sliders.grid_size) :
                   grids[t][c[1]][c[2]] = "empty" /\ GridAfter(t)[c[1]][c[2]] # "empty")
                 => sliders.reproduction_rate > 0

WitC6_AtOptimum ==
    /\ pc = "loop"
    /\ Len(grids) = 1
    /\ temperatures[1] = IntToFloat(sliders.optimal_temp)
    /\ sliders.death_rate > 0
    /\ sliders.reproduction_rate > 0
    /\ sliders.grid_size = 2
    /\ grids[1][0][0] = "white"
    /\ grids[1][0][1] = "empty"
    /\ grid[0][1] = "black"

\* The states in which calculate_temperature is about to be applied to the
\* initial grid (every grid is the initial grid of some run).
AtFirstStep == pc = "loop" /\ Len(grids) = 0

\* The float sum of the albedos of the first k cells of g, row by row.
RECURSIVE AlbedoSum(_, _)
AlbedoSum(g, k) ==
    IF k = 0 THEN 0
    ELSE FAdd(AlbedoSum(g, k - 1),
              daisy_types[g[(k - 1) \div sliders.grid_size][(k - 1) % sliders.grid_size]])

\* solar_luminosity * (1 - global_albedo) * (2 * optimal_temp), in floats.
TemperatureFormula(global_albedo) ==
    FMul(FMul(sliders.solar_luminosity, FSub(One, global_albedo)),
         IntToFloat(2 * sliders.optimal_temp))

\* The temperature of a grid with the given counts, from the counts alone:
\* the albedo sum is taken exactly and rounded once.
TemperatureOfCounts(white, black, empty) ==
    TemperatureFormula(
        Round((white * sliders.albedo_white + black * sliders.albedo_black
                 + empty * sliders.albedo_empty) * One,
              IntToFloat(white + black + empty)))

\* The orders in which n cells can be laid out.
Perms(n) == {f \in [1 .. n -> 1 .. n] : \A a, b \in 1 .. n : f[a] = f[b] => a = b}

\* The cells of g laid out in the order f.
Permuted(g, f) == [k \in DOMAIN f |-> Flatten(g)[f[k]]]

\* Albedos whose sums over a grid are exact floats (multiples of 0.5).
ExactAlbedos ==
    \A a \in {sliders.albedo_white, sliders.albedo_black, sliders.albedo_empty} :
        a \in {0, Decimal(1, 2), One}

DeviationRatio(temperature) ==
    FDiv(deviation(temperature), IntToFloat(sliders.optimal_temp))

\* C9: when |temperature - optimal_temp| / optimal_temp is at least 1 the
\* growth probability is zero or negative and no empty cell becomes white or
\* black in that step, whatever the reproduction rate and the draws.
ThmC9_NoGrowth ==
    \A t \in UpdatedSteps :
        DeviationRatio(temperatures[t]) >= One =>
            /\ growth_prob(temperatures[t]) <= 0
            /\ \A c \in Cells(sliders.grid_size) :
                 grids[t][c[1]][c[2]] = "empty" => GridAfter(t)[c[1]][c[2]] = "empty"
            /\ \A out \in outcomes(temperatures[t]) : out["empty"] = {"empty"}

WitC9_NegativeGrowth ==
    /\ pc = "loop"
    /\ Len(grids) = 1
    /\ sliders.reproduction_rate > 0
    /\ DeviationRatio(temperatures[1]) > One
    /\ growth_prob(temperatures[1]) < 0
    /\ populations.empty[1] >= 2

\* C10: with white_frac = 1.0 and black_frac = 0.0 every cell of the initial
\* grid is white, and in general a state whose fraction is 0 never appears in
\* the initial grid; so for grid_size = 1 and steps = 1 the history has the
\* counts white 1, black 0, empty 0 and the temperature
\* solar_luminosity * (1 - albedo_white) * 2 * optimal_temp.
ThmC10_AllWhite ==
    initial_grid # <<>> =>
        /\ sliders.white_frac = 0 => count(initial_grid, "white") = 0
        /\ sliders.black_frac = 0 => count(initial_grid, "black") = 0
        /\ empty_frac = 0 => count(initial_grid, "empty") = 0
        /\ (sliders.white_frac = One /\ sliders.black_frac = 0) =>
            /\ \A c \in Cells(sliders.grid_size) : initial_grid[c[1]][c[2]] = "white"
            /\ \A k \in DOMAIN simulation_data :
                 (sliders.grid_size = 1 /\ sliders.steps = 1) =>
                    /\ simulation_data[k].populations.white = <<1>>
                    /\ simulation_data[k].populations.black = <<0>>
                    /\ simulation_data[k].populations.empty = <<0>>
                    /\ simulation_data[k].temperatures =
                         <<TemperatureFormula(sliders.albedo_white)>>

WitC10_SingleWhite ==
    /\ sliders.white_frac = One
    /\ sliders.black_frac = 0
    /\ sliders.grid_size = 1
    /\ sliders.steps = 1
    /\ sliders.albedo_white = Decimal(7, 10)
    /\ simulation_data # <<>>
    /\ simulation_data[1].grids = <<initial_grid>>
    /\ simulation_data[1].temperatures[1] > 0

ParamsChanged ==
    \/ last_params = <<>>
    \/ \E k \in 1 .. 11 : last_params[1][k] # params_tuple[k]

\* The history stored in the session has one entry per timestep.
StoredLength(n) ==
    /\ Len(simulation_data[1].grids) = n
    /\ Len(simulation_data[1].temperatures) = n
    /\ \A c \in CellState : Len(simulation_data[1].populations[c]) = n

\* C12: over any sequence of script runs, a run recomputes the simulation
\* iff it is the first run or one of the 11 parameters differs from
\* last_params; otherwise the stored history and last_params are reused
\* unchanged; the stored history changes only when a recomputed simulation
\* returns; once a run has passed the recompute block last_params is the
\* current tuple and the stored history has steps entries, so the selected
\* timestep indexes it.
ThmC12_RecomputeIffChanged ==
    /\ [](pc \in {"render", "done"} =>
            /\ last_params = <<params_tuple>>
            /\ simulation_data # <<>>
            /\ StoredLength(sliders.steps))
    /\ [](pc = "done" =>
            /\ step \in 0 .. (sliders.steps - 1)
            /\ grids = simulation_data[1].grids
            /\ temperatures = simulation_data[1].temperatures
            /\ populations = simulation_data[1].populations
            /\ (step + 1) \in DOMAIN grids)
    /\ [][/\ pc = "script" =>
              IF ParamsChanged
              THEN pc' = "loop" /\ grids' = <<>> /\ grid' = initial_grid'
              ELSE /\ pc' = "render"
                   /\ simulation_data' = simulation_data
                   /\ last_params' = last_params
          /\ simulation_data' # simulation_data =>
               /\ pc = "loop" /\ pc' = "render"
               /\ simulation_data'[1].grids = grids
               /\ last_params' = <<params_tuple>>
          /\ pc \in {"render", "done"} =>
               simulation_data' = simulation_data /\ last_params' = last_params
         ]_vars

\* A run that reused the stored two-step history (it drew no initial grid)
\* and selected the second timestep.
WitC12_Reused ==
    /\ pc = "done"
    /\ initial_grid = <<>>
    /\ sliders.steps = 2
    /\ step = 1
    /\ simulation_data[1].grids[2] # simulation_data[1].grids[1]

\* C13: update_daisies decides every cell from that cell's state in its
\* input grid and writes into a copy: one loop iteration records the input
\* grid as it was, leaves it and the initial grid unchanged, changes no
\* snapshot already in the history, and the next grid is cell by cell an
\* outcome of the input grid's cell; the grids update_daisies can return
\* are the same for every order in which the cells are visited.
ThmC13_FreshCopy ==
    /\ [][(pc = "loop" /\ pc' = "loop") =>
            /\ \A t \in 1 .. Len(grids) : grids'[t] = grids[t]
            /\ Len(grids') = Len(grids) + 1
            /\ grids'[Len(grids')] = grid
            /\ initial_grid' = initial_grid
            /\ IsUpdate(grid, temperatures'[Len(temperatures')], grid')
         ]_vars
    /\ [](AtFirstStep =>
            \A f \in Perms(sliders.grid_size * sliders.grid_size) :
                update_in_order(grid, calculate_temperature(grid), f) =
                    update_daisies(grid, calculate_temperature(grid)))

\* Two snapshots of a 2 x 2 grid that differ from each other and from the
\* current grid: each was kept while the later updates changed cells.
WitC13_SnapshotsKept ==
    /\ pc = "loop"
    /\ sliders.grid_size = 2
    /\ Len(grids) = 2
    /\ grids[1] = initial_grid
    /\ grids[2] # grids[1]
    /\ grid # grids[2]
    /\ grid # grids[1]

\* The transitions of a cell in one update step.
Transitions ==
    {<<"empty", "empty">>, <<"empty", "white">>, <<"empty", "black">>,
     <<"white", "white">>, <<"white", "empty">>,
     <<"black", "black">>, <<"black", "empty">>}

\* Every cell of n is reached from g's cell by one of the transitions.
StepAllowed(g, n) ==
    \A i \in DOMAIN g : \A j \in DOMAIN g[i] : <<g[i][j], n[i][j]>> \in Transitions

\* C14: in one update step a cell only makes one of the seven transitions,
\* never white to black or black to white: at every temperature the outcomes
\* of a cell are among them, each update of a run makes only them, and so do
\* any two consecutive grids of a stored history.
ThmC14_Transitions ==
    /\ AtFirstStep =>
         \A temperature \in ProbeTemps \cup {calculate_temperature(grid)} :
            \A out \in outcomes(temperature) : \A c \in CellState :
               \A x \in out[c] : <<c, x>> \in Transitions
    /\ \A t \in UpdatedSteps : StepAllowed(grids[t], GridAfter(t))
    /\ pc = "render" =>
         \A t \in 1 .. (sliders.steps - 1) :
            StepAllowed(simulation_data[1].grids[t], simulation_data[1].grids[t + 1])

\* A cell that was white, died, and regrew black: the colour changed through
\* an empty state.
WitC14_ThroughEmpty ==
    /\ pc = "loop"
    /\ sliders.grid_size = 1
    /\ Len(grids) = 3
    /\ grids[1][0][0] = "white"
    /\ grids[2][0][0] = "empty"
    /\ grids[3][0][0] = "black"

\* Every white or black cell of g is empty in n.
AllDaisiesDie(g, n) ==
    \A i \in DOMAIN g : \A j \in DOMAIN g[i] :
        g[i][j] \in {"white", "black"} => n[i][j] = "empty"

\* Every white or black cell of g is unchanged in n.
NoDaisyDies(g, n) ==
    \A i \in DOMAIN g : \A j \in DOMAIN g[i] :
        g[i][j] \in {"white", "black"} => n[i][j] = g[i][j]

\* death_rate * |temperature - optimal_temp| / optimal_temp
DeathProduct(temperature) ==
    FDiv(FMul(sliders.death_rate, deviation(temperature)),
         IntToFloat(sliders.optimal_temp))

\* C15: the death probability is not clamped: in a step where
\* death_rate * |temperature - optimal_temp| / optimal_temp is at least 1
\* every white and black cell becomes empty whatever the draws, and in a step
\* where it is 0 no daisy dies; with death_rate 1 an all-white grid of albedo
\* 1 has temperature 0 and dies out in one step.
ThmC15_UnclampedDeath ==
    \A t \in UpdatedSteps :
        /\ DeathProduct(temperatures[t]) >= One => AllDaisiesDie(grids[t], GridAfter(t))
        /\ DeathProduct(temperatures[t]) = 0 => NoDaisyDies(grids[t], GridAfter(t))
        /\ (/\ sliders.death_rate = One
            /\ sliders.albedo_white = One
            /\ count(grids[t], "white") = sliders.grid_size * sliders.grid_size) =>
              /\ temperatures[t] = 0
              /\ count(GridAfter(t), "empty") = sliders.grid_size * sliders.grid_size

\* A step with a death probability above 1 (1.5) in which daisies of a 2 x 2
\* grid died.
WitC15_AboveOne ==
    /\ pc = "loop"
    /\ sliders.grid_size = 2
    /\ Len(grids) = 1
    /\ DeathProduct(temperatures[1]) > One
    /\ count(grids[1], "black") = 4
    /\ count(grid, "empty") = 4

\* 2 * solar_luminosity * optimal_temp: the temperature at albedo 0.
MaxTemperature ==
    FMul(sliders.solar_luminosity, IntToFloat(2 * sliders.optimal_temp))

====
